---- MODULE Spec2Model ----
(***************************************************************************)
(* Nibiru backend: the batch scheduler (services/job_scheduler.py) and the *)
(* quota and abuse policy (services/sandbox_security.py), the resource     *)
(* monitor (services/resource_monitor.py) and the sandbox environment      *)
(* (utils/sandbox.py).                                                     *)
(*                                                                         *)
(* The scheduler runs on one asyncio event loop: a coroutine runs          *)
(* atomically from one await to the next, so every action below is the     *)
(* code between two suspension points.  create_batch, cancel_batch and     *)
(* retry_batch hold no await that suspends and are one action each.  The   *)
(* task of _execute_batch suspends at asyncio.sleep in line 157 (the       *)
(* inter-job delay) and in line 193 (inside _execute_job).                 *)
(*                                                                         *)
(* Python objects are modelled with their identity: objs is the heap of    *)
(* JobBatch objects, jobheap the heap of job lists; JobBatch.jobs is a     *)
(* reference into jobheap, so two batches can share one list.              *)
(***************************************************************************)
EXTENDS Integers, Sequences, FiniteSets, TLC

\* ------------------------------------------------------------------ bounds
MaxBatches == 2      \* JobBatch objects constructed in one run
MaxJobs == 2         \* jobs in one submitted list
MaxClock == 2        \* last clock value of the scheduler specification
MaxFailures == 5     \* failures held in one user's ledger entry
RetryClock == 4      \* last clock value of the retry specification
MaxScore == 100      \* quantum scores asked of get_resource_limits: 0..MaxScore
MaxMonitorTasks == 2 \* tasks of _monitor_resources created in one run
MaxSamples == 2      \* samples one job's monitoring stores
MaxEnvironments == 3 \* create_environment scopes entered in one run
MaxCalls == 3 \* record_failed_attempt calls made from threads in one run
MaxRateCalls == 3 \* check_rate_limit calls made in one run

Users == {"u1", "u2"}
SchedUsers == {"u1"} \* the users that submit batches in the scheduler specification
Delays == {0, 1}     \* delay_between_jobs values submitted, in seconds
JobSeconds == 1      \* asyncio.sleep(1) of _execute_job
NoTime == 0 - 1      \* Optional[datetime] None
NoMsg == "None"      \* Optional[str] None

\* A submitted job: a dict without a "status" key (the scheduler never writes
\* "pending"; get_batch_status reports such a job as "unknown"), or an item
\* that is no dict (item assignment on it raises TypeError).
DictJob == [isdict |-> TRUE, status |-> "absent", error |-> NoMsg]
NonDictJob == [isdict |-> FALSE, status |-> "absent", error |-> NoMsg]
JobItems == {DictJob, NonDictJob}

JobLists == UNION { [1..n -> JobItems] : n \in 0..MaxJobs }


VARIABLES
    now,              \* datetime.now(), in whole seconds
    objs,             \* heap of JobBatch objects, in order of construction
    jobheap,          \* heap of job lists; objs[b].jobs indexes it
    batches,          \* self.batches: batch_id -> JobBatch object
    scheduled_tasks,  \* self.scheduled_tasks: batch_id -> task (named by its object)
    task,             \* per JobBatch object, the task running _execute_batch on it
    ran,              \* per JobBatch object, the jobs its task executed: <<index, outcome>>
    failed_attempts,  \* SandboxSecurityService.failed_attempts: user -> timestamps
    cooldowns,        \* SandboxSecurityService.cooldowns: user -> cooldown end
    last,             \* the last call made and what it returned
    asked_score,      \* quantum_score of the last two get_resource_limits calls
    returned_limits,  \* the ResourceLimits those calls returned, in the same order
    job_metrics,      \* ResourceMonitorService.job_metrics: job_id -> samples
    job_events,       \* ResourceMonitorService.job_events: job_id -> events
    monitoring_tasks, \* ResourceMonitorService.monitoring_tasks: job_id -> task
    monitor_task,     \* the tasks running _monitor_resources, in order of creation
    metrics_log,      \* logs/resources/metrics_<job_id>.json: the entries written
    events_log,       \* logs/resources/events_<job_id>.json: the entries written
    returned_metrics, \* what the last get_job_metrics returned: <<>> (None) or <<dict>>
    environments,     \* the create_environment scopes entered, in order
    record_calls,     \* the record_failed_attempt calls made from threads: their frames
    redis_store,      \* the redis server behind RateLimiter: key -> value and expiry
    rate_calls        \* the check_rate_limit calls made: their frames

schedVars == <<objs, jobheap, batches, scheduled_tasks, task, ran>>
ledgerVars == <<failed_attempts, cooldowns>>
limitsVars == <<asked_score, returned_limits>>
\* the state of the services other than the scheduler and the ledger
monitorVars == <<job_metrics, job_events, monitoring_tasks, monitor_task,
                 metrics_log, events_log, returned_metrics>>
sandboxVars == <<environments>>
threadVars == <<record_calls>>
rateVars == <<redis_store, rate_calls>>
extVars == <<limitsVars, monitorVars, sandboxVars, threadVars, rateVars>>
vars == <<now, objs, jobheap, batches, scheduled_tasks, task, ran,
          failed_attempts, cooldowns, last, extVars>>

\* ------------------------------------------------------------ the scheduler

\* BatchStatus, job_scheduler.py:12-17
BatchStatus == {"pending", "running", "completed", "failed", "cancelled"}

\* f"{user_id}_{datetime.now().timestamp()}"
batch_id(user_id, t) == <<user_id, t>>

Objs == 1..Len(objs)

\* No task is between two statements that no await separates: the event
\* loop runs nothing else there.
Ready == \A b \in Objs : task[b].pc # "started"

\* A call and what it returned.  ret is "true"/"false" of cancel_batch and
\* record_failed_attempt, "batch"/"none" of create_batch and retry_batch,
\* "value"/"none" of check_cooldown; val is the JobBatch object returned or
\* acted on, or the seconds check_cooldown reports (0: nothing); user is the
\* user_id argument of the policy calls.
Call(op, user, ret, val) == [op |-> op, user |-> user, ret |-> ret, val |-> val]
Idle == Call("-", "-", "none", 0)

\* JobBatch(...) as create_batch constructs it
NewJobBatch(user_id, jobsref, delay) ==
    [ batch_id |-> batch_id(user_id, now),
      user_id |-> user_id,
      jobs |-> jobsref,
      status |-> "pending",
      created_at |-> now,
      started_at |-> NoTime,
      completed_at |-> NoTime,
      delay_between_jobs |-> delay,
      error_message |-> NoMsg ]

\* A task: where its coroutine is suspended (pc), the job it is at (i), the
\* instant the timer of its sleep fires (wake; 0 once it has fired) and
\* whether Task.cancel() was called on it and is not yet delivered (cancel).
NewTask == [pc |-> "created", i |-> 0, wake |-> 0, cancel |-> FALSE]
DoneTask == [pc |-> "done", i |-> 0, wake |-> 0, cancel |-> FALSE]

\* dict assignment d[k] = v on a function that may lack k
Put(f, k, v) == [x \in DOMAIN f \cup {k} |-> IF x = k THEN v ELSE f[x]]
\* del d[k]
Del(f, k) == [x \in DOMAIN f \ {k} |-> f[x]]

\* The body of create_batch on a job list already on the heap.
create_batch(user_id, jobsref, delay, heap, op) ==
    LET b == Len(objs) + 1
        batch == NewJobBatch(user_id, jobsref, delay)
    IN /\ objs' = Append(objs, batch)
       /\ jobheap' = heap
       /\ batches' = Put(batches, batch.batch_id, b)
       /\ scheduled_tasks' = Put(scheduled_tasks, batch.batch_id, b)
       /\ task' = Append(task, NewTask)
       /\ ran' = Append(ran, <<>>)
       /\ last' = Call(op, "-", "batch", b)

\* A caller submits a fresh list of jobs.
CreateBatch(user_id, jobs, delay) ==
    /\ Ready
    /\ Len(objs) < MaxBatches
    /\ create_batch(user_id, Len(jobheap) + 1, delay, Append(jobheap, jobs),
                    "create_batch")
    /\ UNCHANGED <<extVars, now, ledgerVars>>

CancelBatchOpen(id) ==
    LET b == batches[id]
        cancelled == IF id \in DOMAIN scheduled_tasks
                     THEN [task EXCEPT ![scheduled_tasks[id]].cancel =
                              (task[scheduled_tasks[id]].pc # "done")]
                     ELSE task
    IN /\ task' = cancelled
       /\ scheduled_tasks' = IF id \in DOMAIN scheduled_tasks
                             THEN Del(scheduled_tasks, id) ELSE scheduled_tasks
       /\ objs' = [objs EXCEPT ![b].status = "cancelled",
                               ![b].completed_at = now,
                               ![b].error_message = "Batch cancelled by user"]
       /\ last' = Call("cancel_batch", "-", "true", b)
       /\ UNCHANGED <<jobheap, batches, ran>>

\* cancel_batch without the status test of line 82
CancelAllowed_Always(status) == TRUE
\* cancel_batch refusing only a batch already cancelled
CancelAllowed_Uncancelled(status) == status # "cancelled"

\* batch.status in [PENDING, RUNNING], line 82
CancelAllowed(status) == status \in {"pending", "running"}

cancel_batch(id) ==
    IF id \notin DOMAIN batches
    THEN /\ last' = Call("cancel_batch", "-", "false", 0)
         /\ UNCHANGED schedVars
    ELSE IF ~CancelAllowed(objs[batches[id]].status)
    THEN /\ last' = Call("cancel_batch", "-", "false", 0)
         /\ UNCHANGED schedVars
    ELSE CancelBatchOpen(id)

CancelBatch(id) ==
    /\ Ready
    /\ cancel_batch(id)
    /\ UNCHANGED <<extVars, now, ledgerVars>>

\* retry_batch accepting every finished batch
RetryAllowed_Finished(status) == status \in {"completed", "failed", "cancelled"}

\* batch.status == FAILED, line 104
RetryAllowed(status) == status = "failed"

RetryBatch(id) ==
    /\ Ready
    /\ IF id \notin DOMAIN batches
       THEN /\ last' = Call("retry_batch", "-", "none", 0)
            /\ UNCHANGED schedVars
       ELSE IF ~RetryAllowed(objs[batches[id]].status)
       THEN /\ last' = Call("retry_batch", "-", "none", 0)
            /\ UNCHANGED schedVars
       ELSE LET batch == objs[batches[id]]
            IN /\ Len(objs) < MaxBatches
               /\ create_batch(batch.user_id, batch.jobs, batch.delay_between_jobs,
                               jobheap, "retry_batch")
    /\ UNCHANGED <<extVars, now, ledgerVars>>

\* the loop ending without the status update of lines 171-173
EnterIteration_StaysRunning(o, i) ==
    IF i > Len(jobheap[o.jobs]) \/ o.status # "running"
    THEN [ obj |-> o, task |-> DoneTask ]
    ELSE IF i > 1 /\ o.delay_between_jobs > 0
    THEN [ obj |-> o,
           task |-> [pc |-> "sleep_delay", i |-> i,
                     wake |-> now + o.delay_between_jobs, cancel |-> FALSE] ]
    ELSE [ obj |-> o,
           task |-> [pc |-> "sleep_job", i |-> i,
                     wake |-> now + JobSeconds, cancel |-> FALSE] ]

\* The for loop of _execute_batch arriving at job i (1-based) with the
\* batch object in state o: what the object and the task become.
EnterIteration(o, i) ==
    IF i > Len(jobheap[o.jobs]) \/ o.status # "running"
    THEN [ obj |-> IF o.status = "running"
                   THEN [o EXCEPT !.status = "completed", !.completed_at = now]
                   ELSE o,
           task |-> DoneTask ]
    ELSE IF i > 1 /\ o.delay_between_jobs > 0
    THEN [ obj |-> o,
           task |-> [pc |-> "sleep_delay", i |-> i,
                     wake |-> now + o.delay_between_jobs, cancel |-> FALSE] ]
    ELSE [ obj |-> o,
           task |-> [pc |-> "sleep_job", i |-> i,
                     wake |-> now + JobSeconds, cancel |-> FALSE] ]

\* The task runs for the first time: lines 146-149, the batch is running.
TaskStart(b) ==
    /\ Ready
    /\ task[b].pc = "created" /\ ~task[b].cancel
    /\ objs' = [objs EXCEPT ![b].status = "running", ![b].started_at = now]
    /\ task' = [task EXCEPT ![b].pc = "started"]
    /\ last' = Idle
    /\ UNCHANGED <<extVars, now, jobheap, batches, scheduled_tasks, ran, ledgerVars>>

\* ... and goes on, with no await in between, into the loop of line 151 up
\* to its first await (or to the end, on an empty list).
TaskLoop(b) ==
    /\ task[b].pc = "started"
    /\ LET n == EnterIteration(objs[b], 1)
       IN /\ objs' = [objs EXCEPT ![b] = n.obj]
          /\ task' = [task EXCEPT ![b] = n.task]
    /\ UNCHANGED <<extVars, now, jobheap, batches, scheduled_tasks, ran, ledgerVars, last>>

\* The inter-job delay of line 157 is over: _execute_job is called and
\* suspends in its own sleep.
ResumeDelay(b) ==
    /\ Ready
    /\ task[b].pc = "sleep_delay" /\ ~task[b].cancel
    /\ task[b].wake = 0
    /\ task' = [task EXCEPT ![b].pc = "sleep_job", ![b].wake = now + JobSeconds]
    /\ last' = Idle
    /\ UNCHANGED <<extVars, now, objs, jobheap, batches, scheduled_tasks, ran, ledgerVars>>

\* the handler logging the error without recording it on the job
RecordJobFailure_Lost(job) == job

\* except Exception of lines 164-168: the failure is recorded on the job.
RecordJobFailure(job) == [job EXCEPT !.status = "failed", !.error = "error"]

\* the loop taking the same job again
NextIndex_Same(i) == i

\* for i, job in enumerate(batch.jobs), line 151: the job after job i
NextIndex(i) == i + 1

\* _execute_job returns (line 194) or the job's execution raises; then the
\* loop goes on to the next job.  out is the outcome of the execution the
\* placeholder of lines 191-193 stands for.
ResumeJob(b, out) ==
    /\ Ready
    /\ task[b].pc = "sleep_job" /\ ~task[b].cancel
    /\ task[b].wake = 0
    /\ LET ref == objs[b].jobs
           i == task[b].i
           job == jobheap[ref][i]
       IN IF ~job.isdict
          THEN \* job["status"] = ... raises TypeError in line 194 and again in
               \* the handler, line 166: except Exception of lines 182-187
               /\ out = "raise"
               /\ objs' = [objs EXCEPT ![b].status = "failed",
                                       ![b].completed_at = now,
                                       ![b].error_message = "TypeError"]
               /\ task' = [task EXCEPT ![b] = DoneTask]
               /\ ran' = [ran EXCEPT ![b] = Append(@, <<i, "fault">>)]
               /\ UNCHANGED jobheap
          ELSE LET n == EnterIteration(objs[b], NextIndex(i))
               IN /\ jobheap' = [jobheap EXCEPT ![ref][i] =
                                   IF out = "ok" THEN [job EXCEPT !.status = "completed"]
                                   ELSE RecordJobFailure(job)]
                  /\ objs' = [objs EXCEPT ![b] = n.obj]
                  /\ task' = [task EXCEPT ![b] = n.task]
                  /\ ran' = [ran EXCEPT ![b] = Append(@, <<i, out>>)]
    /\ last' = Idle
    /\ UNCHANGED <<extVars, now, batches, scheduled_tasks, ledgerVars>>

\* Task.cancel() was called: CancelledError is thrown into the coroutine at
\* the await it is suspended in (lines 177-181).  A task that never ran is
\* closed without running any of its body.
TaskCancelled(b) ==
    /\ Ready
    /\ task[b].cancel /\ task[b].pc # "done"
    /\ objs' = IF task[b].pc = "created" THEN objs
               ELSE [objs EXCEPT ![b].status = "cancelled",
                                 ![b].completed_at = now,
                                 ![b].error_message = "Batch execution cancelled"]
    /\ task' = [task EXCEPT ![b] = DoneTask]
    /\ last' = Idle
    /\ UNCHANGED <<extVars, now, jobheap, batches, scheduled_tasks, ran, ledgerVars>>

\* ------------------------------------------------- quota and abuse policy

\* The quantum score the reputation collaborator reports for each user.
UserScore == [u \in Users |-> IF u = "u1" THEN 40 ELSE 60]

\* SandboxSecurityService.resource_limits, sandbox_security.py:32-77
resource_limits ==
    [ bronze |->
        [ cpu_period |-> 100000, cpu_quota |-> 25000, memory |-> "256m",
          memory_swap |-> "256m", pids_limit |-> 20, max_execution_time |-> 300,
          max_concurrent_jobs |-> 1, cooldown_period |-> 3600,
          max_failed_attempts |-> 3 ],
      silver |->
        [ cpu_period |-> 100000, cpu_quota |-> 50000, memory |-> "512m",
          memory_swap |-> "512m", pids_limit |-> 50, max_execution_time |-> 600,
          max_concurrent_jobs |-> 2, cooldown_period |-> 1800,
          max_failed_attempts |-> 5 ],
      gold |->
        [ cpu_period |-> 100000, cpu_quota |-> 75000, memory |-> "1g",
          memory_swap |-> "1g", pids_limit |-> 100, max_execution_time |-> 1200,
          max_concurrent_jobs |-> 3, cooldown_period |-> 900,
          max_failed_attempts |-> 10 ],
      platinum |->
        [ cpu_period |-> 100000, cpu_quota |-> 100000, memory |-> "2g",
          memory_swap |-> "2g", pids_limit |-> 200, max_execution_time |-> 3600,
          max_concurrent_jobs |-> 5, cooldown_period |-> 300,
          max_failed_attempts |-> 20 ] ]

\* the thresholds taken as exclusive
get_resource_limits_Above(user_id, quantum_score) ==
    IF quantum_score > 90 THEN resource_limits.platinum
    ELSE IF quantum_score > 75 THEN resource_limits.gold
    ELSE IF quantum_score > 50 THEN resource_limits.silver
    ELSE resource_limits.bronze

\* the two middle tiers exchanged
get_resource_limits_Exchanged(user_id, quantum_score) ==
    IF quantum_score >= 90 THEN resource_limits.platinum
    ELSE IF quantum_score >= 75 THEN resource_limits.silver
    ELSE IF quantum_score >= 50 THEN resource_limits.gold
    ELSE resource_limits.bronze

get_resource_limits(user_id, quantum_score) ==
    IF quantum_score >= 90 THEN resource_limits.platinum
    ELSE IF quantum_score >= 75 THEN resource_limits.gold
    ELSE IF quantum_score >= 50 THEN resource_limits.silver
    ELSE resource_limits.bronze

\* the quantum_score arguments asked
Scores == 0..MaxScore

\* the last two items of a history
LastTwo(seq) == IF Len(seq) > 2 THEN Tail(seq) ELSE seq

\* a call of get_resource_limits; the caller keeps what it returned
GetResourceLimits(user_id, score) ==
    /\ Ready
    /\ asked_score' = LastTwo(Append(asked_score, score))
    /\ returned_limits' =
           LastTwo(Append(returned_limits, get_resource_limits(user_id, score)))
    /\ last' = Call("get_resource_limits", user_id, "limits", 0)
    /\ UNCHANGED <<now, schedVars, rateVars, ledgerVars, threadVars, monitorVars, sandboxVars>>

\* Optional[str] of check_cooldown: the message carries the seconds remaining.
NoCooldown == [some |-> FALSE, remaining |-> 0]

\* The clock is read twice: datetime.now() of line 101 is the variable now,
\* datetime.now() of line 102 is now2, the same second or the next one.
ClockReads == {now, now + 1}

check_cooldown(user_id, now2) ==
    IF user_id \in DOMAIN cooldowns
    THEN IF now < cooldowns[user_id]
         THEN [some |-> TRUE, remaining |-> cooldowns[user_id] - now2]
         ELSE NoCooldown
    ELSE NoCooldown

CheckCooldown(user_id) ==
    /\ Ready
    /\ \E now2 \in ClockReads :
         last' = LET r == check_cooldown(user_id, now2)
                 IN Call("check_cooldown", user_id,
                         IF r.some THEN "value" ELSE "none", r.remaining)
    /\ last' # last
    /\ UNCHANGED <<extVars, now, schedVars, ledgerVars>>

\* limits = self.get_resource_limits(user_id, 0)  # Default to bronze tier
LedgerLimits(user_id) == get_resource_limits(user_id, 0)

\* attempt > cutoff, line 122
Recent(attempt, cutoff) == attempt > cutoff

\* the cooldown starting only once the limit is exceeded
ReachesLimit_Exceeds(n, limit) == n > limit

\* len(...) >= limits.max_failed_attempts, line 126
ReachesLimit(n, limit) == n >= limit

RecordFailedAttempt(user_id) ==
    LET old == IF user_id \in DOMAIN failed_attempts
               THEN failed_attempts[user_id] ELSE <<>>
        limits == LedgerLimits(user_id)
        cutoff == now - limits.cooldown_period
        kept == SelectSeq(Append(old, now), LAMBDA a : Recent(a, cutoff))
    IN /\ Ready
       /\ Len(old) < MaxFailures
       /\ failed_attempts' = Put(failed_attempts, user_id, kept)
       /\ IF ReachesLimit(Len(kept), limits.max_failed_attempts)
          THEN /\ cooldowns' = Put(cooldowns, user_id, now + limits.cooldown_period)
               /\ last' = Call("record_failed_attempt", user_id, "true", 0)
          ELSE /\ cooldowns' = cooldowns
               /\ last' = Call("record_failed_attempt", user_id, "false", 0)
       /\ UNCHANGED <<extVars, now, schedVars>>

\* The clock moves on.
Advance(t) ==
    /\ Ready
    /\ t > now
    /\ now' = t
    /\ task' = [b \in DOMAIN task |->
                  IF task[b].wake <= t THEN [task[b] EXCEPT !.wake = 0] ELSE task[b]]
    /\ last' = Idle
    /\ UNCHANGED <<extVars, objs, jobheap, batches, scheduled_tasks, ran, ledgerVars>>

\* ------------------------------------------------------ resource monitor
\* services/resource_monitor.py.  start_monitoring, stop_monitoring and
\* get_job_metrics hold no await that suspends; the task of
\* _monitor_resources suspends only at asyncio.sleep(1) in line 159
\* (_check_resource_events holds no await and runs within the iteration).

JobIds == {"j1", "j2"}
MonitorJobs == {"j1"}   \* the jobs start_monitoring is called for
MonitorSeconds == 1     \* asyncio.sleep(1) of _monitor_resources

\* self.thresholds, lines 46-51
thresholds ==
    [ cpu_peak |-> 80, memory_peak |-> 80,
      io_threshold |-> 1024 * 1024 * 100,
      network_threshold |-> 1024 * 1024 * 50 ]

\* What one iteration reads of the process (lines 137-144); the io and
\* network fields are the differences to the counters read before.
Reading(cpu, mem, io_read, io_write, net_sent, net_recv) ==
    [ cpu_percent |-> cpu, memory_percent |-> mem,
      memory_used |-> mem, memory_total |-> 100,
      io_read_bytes |-> io_read, io_write_bytes |-> io_write,
      network_sent_bytes |-> net_sent, network_recv_bytes |-> net_recv ]

\* ResourceMetrics(..., timestamp=datetime.now())
ResourceMetrics(reading) ==
    [ cpu_percent |-> reading.cpu_percent,
      memory_percent |-> reading.memory_percent,
      memory_used |-> reading.memory_used,
      memory_total |-> reading.memory_total,
      io_read_bytes |-> reading.io_read_bytes,
      io_write_bytes |-> reading.io_write_bytes,
      network_sent_bytes |-> reading.network_sent_bytes,
      network_recv_bytes |-> reading.network_recv_bytes,
      timestamp |-> now ]

\* datetime.isoformat(): the text of a timestamp
isoformat(t) == <<"iso", t>>

\* ResourceEvent(...); details is a dict, kept as its items in order
ResourceEvent(event_type, job_id, metrics, details) ==
    [ event_type |-> event_type, job_id |-> job_id,
      timestamp |-> metrics.timestamp, details |-> details,
      metrics |-> metrics ]

\* The list events that _check_resource_events builds, lines 175-221.
ResourceEvents(job_id, metrics) ==
    LET cpu == IF metrics.cpu_percent >= thresholds.cpu_peak
               THEN << ResourceEvent("cpu_peak", job_id, metrics,
                          << <<"cpu_percent", metrics.cpu_percent>> >>) >>
               ELSE <<>>
        mem == IF metrics.memory_percent >= thresholds.memory_peak
               THEN << ResourceEvent("memory_peak", job_id, metrics,
                          << <<"memory_percent", metrics.memory_percent>> >>) >>
               ELSE <<>>
        io  == IF metrics.io_read_bytes + metrics.io_write_bytes
                      >= thresholds.io_threshold
               THEN << ResourceEvent("throttling", job_id, metrics,
                          << <<"io_read", metrics.io_read_bytes>>,
                             <<"io_write", metrics.io_write_bytes>> >>) >>
               ELSE <<>>
        net == IF metrics.network_sent_bytes + metrics.network_recv_bytes
                      >= thresholds.network_threshold
               THEN << ResourceEvent("throttling", job_id, metrics,
                          << <<"network_sent", metrics.network_sent_bytes>>,
                             <<"network_recv", metrics.network_recv_bytes>> >>) >>
               ELSE <<>>
    IN cpu \o mem \o io \o net

\* d.get(k, []) of a dict of lists
GetList(d, k) == IF k \in DOMAIN d THEN d[k] ELSE <<>>

\* f applied to every item of a list
Map(f(_), seq) == [i \in DOMAIN seq |-> f(seq[i])]

\* _append_to_log, lines 270-284: the file holds what it held and entries
append_to_log(log, job_id, entries) ==
    Put(log, job_id, GetList(log, job_id) \o entries)

\* an entry of the metrics log, lines 237-247
MetricsEntry(m) ==
    [ timestamp |-> isoformat(m.timestamp),
      cpu_percent |-> m.cpu_percent, memory_percent |-> m.memory_percent,
      memory_used |-> m.memory_used, memory_total |-> m.memory_total,
      io_read_bytes |-> m.io_read_bytes, io_write_bytes |-> m.io_write_bytes,
      network_sent_bytes |-> m.network_sent_bytes,
      network_recv_bytes |-> m.network_recv_bytes ]

\* an entry of the events log, lines 260-264, and of get_job_metrics
EventEntry(event) ==
    [ type |-> event.event_type, timestamp |-> isoformat(event.timestamp),
      details |-> event.details ]

\* _write_metrics_log, lines 230-251, on the samples held
write_metrics_log(job_id, held) ==
    IF job_id \notin DOMAIN held THEN metrics_log
    ELSE append_to_log(metrics_log, job_id, Map(MetricsEntry, held[job_id]))

\* _write_events_log, lines 253-268, on the events held
write_events_log(job_id, held) ==
    IF job_id \notin DOMAIN held THEN events_log
    ELSE append_to_log(events_log, job_id, Map(EventEntry, held[job_id]))

\* asyncio.create_task(self._monitor_resources(job_id, process)), line 65.
\* ended tells how the coroutine finished: "-" while it has not.
NewMonitorTask(job_id) ==
    [job_id |-> job_id, pc |-> "created", wake |-> 0, cancel |-> FALSE, ended |-> "-"]

MonitorTasks == 1..Len(monitor_task)

StartMonitoring(job_id) ==
    /\ Ready
    /\ IF job_id \in DOMAIN monitoring_tasks
       THEN UNCHANGED <<job_metrics, job_events, monitoring_tasks, monitor_task>>
       ELSE /\ Len(monitor_task) < MaxMonitorTasks
            /\ job_metrics' = Put(job_metrics, job_id, <<>>)
            /\ job_events' = Put(job_events, job_id, <<>>)
            /\ monitor_task' = Append(monitor_task, NewMonitorTask(job_id))
            /\ monitoring_tasks' = Put(monitoring_tasks, job_id, Len(monitor_task) + 1)
    /\ last' = Call("start_monitoring", job_id, "returned", 0)
    /\ UNCHANGED <<now, schedVars, rateVars, ledgerVars, threadVars, limitsVars, sandboxVars,
                   metrics_log, events_log, returned_metrics>>

\* lines 74-76: write final metrics to log
FinalFlush(job_id) ==
    /\ metrics_log' = write_metrics_log(job_id, job_metrics)
    /\ events_log' = write_events_log(job_id, job_events)

\* a cancel() that the task never sees
Cancel_Ignored(t) == t

\* Task.cancel(): a task that has finished stays as it is
Cancel(t) == IF t.pc = "done" THEN t ELSE [t EXCEPT !.cancel = TRUE]

\* stop_monitoring flushing whether or not the job is monitored
StopGuard_Always(job_id) == TRUE

\* if job_id in self.monitoring_tasks, line 70
StopGuard(job_id) == job_id \in DOMAIN monitoring_tasks

StopMonitoring(job_id) ==
    /\ Ready
    /\ IF StopGuard(job_id)
       THEN /\ monitor_task' =
                  IF job_id \in DOMAIN monitoring_tasks
                  THEN [monitor_task EXCEPT ![monitoring_tasks[job_id]] = Cancel(@)]
                  ELSE monitor_task
            /\ monitoring_tasks' = Del(monitoring_tasks, job_id)
            /\ FinalFlush(job_id)
       ELSE UNCHANGED <<monitoring_tasks, monitor_task, metrics_log, events_log>>
    /\ last' = Call("stop_monitoring", job_id, "returned", 0)
    /\ UNCHANGED <<now, schedVars, rateVars, ledgerVars, threadVars, limitsVars, sandboxVars,
                   job_metrics, job_events, returned_metrics>>

RECURSIVE SumOf(_)
SumOf(values) == IF values = <<>> THEN 0 ELSE Head(values) + SumOf(Tail(values))

RECURSIVE MaxOf(_)
MaxOf(values) ==
    IF Len(values) = 1 THEN Head(values)
    ELSE IF Head(values) >= MaxOf(Tail(values)) THEN Head(values)
         ELSE MaxOf(Tail(values))

\* the value of one field in every sample, in order
cpu_percent_of(m) == m.cpu_percent
memory_percent_of(m) == m.memory_percent

\* the statistics with the last sample taken for the peak
Statistics_PeakLast(values) ==
    [ current |-> values[Len(values)],
      average |-> <<SumOf(values), Len(values)>>,
      peak |-> values[Len(values)],
      history |-> values ]

\* the statistics of lines 96-107; the average is kept as <<sum, count>>
Statistics(values) ==
    [ current |-> values[Len(values)],
      average |-> <<SumOf(values), Len(values)>>,
      peak |-> MaxOf(values),
      history |-> values ]

\* get_job_metrics, lines 78-125: <<>> is None
get_job_metrics(job_id) ==
    IF job_id \notin DOMAIN job_metrics THEN <<>>
    ELSE IF job_metrics[job_id] = <<>> THEN <<>>
    ELSE LET metrics == job_metrics[job_id]
             events == GetList(job_events, job_id)
         IN << [ job_id |-> job_id,
                 cpu |-> Statistics(Map(cpu_percent_of, metrics)),
                 memory |-> Statistics(Map(memory_percent_of, metrics)),
                 io |-> [ read_total |-> metrics[Len(metrics)].io_read_bytes,
                          write_total |-> metrics[Len(metrics)].io_write_bytes ],
                 network |-> [ sent_total |-> metrics[Len(metrics)].network_sent_bytes,
                               recv_total |-> metrics[Len(metrics)].network_recv_bytes ],
                 events |-> Map(EventEntry, events) ] >>

GetJobMetrics(job_id) ==
    /\ Ready
    /\ returned_metrics' = get_job_metrics(job_id)
    /\ last' = Call("get_job_metrics", job_id,
                    IF get_job_metrics(job_id) = <<>> THEN "none" ELSE "metrics", 0)
    /\ UNCHANGED <<now, schedVars, rateVars, ledgerVars, threadVars, limitsVars, sandboxVars, job_metrics, job_events,
                   monitoring_tasks, monitor_task, metrics_log, events_log>>

\* A task of _monitor_resources can take a step: it was never run, or its
\* asyncio.sleep(1) is over.
MonitorAwake(t) ==
    /\ ~monitor_task[t].cancel
    /\ \/ monitor_task[t].pc = "created"
       \/ monitor_task[t].pc = "sleep" /\ now >= monitor_task[t].wake

\* an event list that holds at most the first event of a sample
StoreEvents_First(held, job_id, events) ==
    IF events = <<>> THEN held
    ELSE Put(held, job_id, GetList(held, job_id) \o <<Head(events)>>)

\* lines 224-227: self.job_events[job_id].extend(events)
StoreEvents(held, job_id, events) ==
    IF events = <<>> THEN held
    ELSE Put(held, job_id, GetList(held, job_id) \o events)

\* One iteration of the loop, lines 134-159: the process is read, the
\* sample stored, the events checked, stored and logged, and the task
\* sleeps.  A first iteration follows lines 130-131.
MonitorSample(t, reading) ==
    LET job_id == monitor_task[t].job_id
        metrics == ResourceMetrics(reading)
        events == ResourceEvents(job_id, metrics)
    IN /\ Ready
       /\ MonitorAwake(t)
       /\ Len(job_metrics[job_id]) < MaxSamples
       /\ job_metrics' = [job_metrics EXCEPT ![job_id] = Append(@, metrics)]
       /\ job_events' = StoreEvents(job_events, job_id, events)
       /\ events_log' = IF events = <<>> THEN events_log
                        ELSE write_events_log(job_id, job_events')
       /\ monitor_task' = [monitor_task EXCEPT
                             ![t].pc = "sleep", ![t].wake = now + MonitorSeconds]
       /\ last' = Idle
       /\ UNCHANGED <<now, schedVars, rateVars, ledgerVars, threadVars, limitsVars, sandboxVars,
                      monitoring_tasks, metrics_log, returned_metrics>>

\* what the task does on its way out of the loop: nothing is written
LeaveLoop(job_id) ==
    UNCHANGED <<metrics_log, events_log>>

\* The process has disappeared (or reading it fails otherwise): a call of
\* lines 130-131 or 137-150 raises, the sample being built is not stored,
\* the handler of line 161, 164 or 170 logs and the coroutine returns.
MonitorGone(t) ==
    /\ Ready
    /\ MonitorAwake(t)
    /\ monitor_task' = [monitor_task EXCEPT ![t].pc = "done", ![t].ended = "gone"]
    /\ LeaveLoop(monitor_task[t].job_id)
    /\ last' = Idle
    /\ UNCHANGED <<now, schedVars, rateVars, ledgerVars, threadVars, limitsVars, sandboxVars, job_metrics, job_events,
                   monitoring_tasks, returned_metrics>>

\* CancelledError delivered at asyncio.sleep (line 168), or the task
\* cancelled before it ever ran: no line of the coroutine runs.
MonitorCancelled(t) ==
    /\ Ready
    /\ monitor_task[t].pc \in {"created", "sleep"}
    /\ monitor_task[t].cancel
    /\ monitor_task' = [monitor_task EXCEPT ![t].pc = "done", ![t].ended = "cancelled"]
    /\ last' = Idle
    /\ UNCHANGED <<now, schedVars, rateVars, ledgerVars, threadVars, limitsVars, sandboxVars, job_metrics, job_events,
                   monitoring_tasks, metrics_log, events_log, returned_metrics>>

\* ---------------------------------------------------- sandbox environment
\* utils/sandbox.py, create_environment: a generator context manager.  The
\* code up to the yield and the code of the finally clause hold no await:
\* a scope is entered in one step and left in one step, and the scopes of
\* several jobs overlap only in their bodies.  Every call on the docker
\* client either returns or raises.

Outcomes == {"ok", "raise"}

\* How far lines 97-114 get: containers.create raises, container.start
\* raises, exec_run or _setup_restrictions raises, or the yield is reached.
SetupOutcomes == {"create_raises", "start_raises", "setup_raises", "yield"}

\* How the body of the with statement ends.
BodyOutcomes == {"return", "raise", "cancelled"}

\* The container after lines 97-114.
ContainerAfterSetup(setup) ==
    CASE setup = "create_raises" -> "none"
      [] setup = "start_raises" -> "created"
      [] setup = "setup_raises" -> "running"
      [] setup = "yield" -> "running"

\* The finally clause, lines 118-125: stop and remove are the outcomes of
\* container.stop() and container.remove(force=True); "-" is a call not
\* made.  A stop that raises leaves the container as it was.
Cleanup(container, stop, remove) ==
    IF container = "none"
    THEN [container |-> "none", stop |-> "-", remove |-> "-", logged |-> 0]
    ELSE IF stop = "raise"
    THEN [container |-> container, stop |-> "raise", remove |-> "-", logged |-> 1]
    ELSE IF remove = "raise"
    THEN [container |-> "stopped", stop |-> "ok", remove |-> "raise", logged |-> 1]
    ELSE [container |-> "removed", stop |-> "ok", remove |-> "ok", logged |-> 0]

\* the exception of the finally clause reaching the caller
Propagated_CleanupError(pending, cleanup) ==
    IF cleanup.logged > 0 THEN "docker_error" ELSE pending

\* What leaves the scope: the finally clause catches its own exceptions
\* (line 124) and the pending outcome goes on to the caller.
Propagated(pending, cleanup) == pending

Environments == 1..Len(environments)

\* with self.sandbox.create_environment(): up to the yield, or through the
\* finally clause when the setup raises
EnterEnvironment(setup, stop, remove) ==
    LET container == ContainerAfterSetup(setup)
        cleanup == Cleanup(container, stop, remove)
    IN /\ Ready
       /\ Len(environments) < MaxEnvironments
       /\ environments' = Append(environments,
            IF setup = "yield"
            THEN [ pc |-> "body", setup |-> setup, body |-> "-",
                   container |-> container, stop |-> "-", remove |-> "-",
                   logged |-> 0, outcome |-> "-" ]
            ELSE [ pc |-> "closed", setup |-> setup, body |-> "-",
                   container |-> cleanup.container, stop |-> cleanup.stop,
                   remove |-> cleanup.remove, logged |-> cleanup.logged,
                   outcome |-> Propagated(setup, cleanup) ])
       /\ last' = Call("create_environment", "-", setup, Len(environments) + 1)
       /\ UNCHANGED <<now, schedVars, rateVars, ledgerVars, threadVars, limitsVars, monitorVars>>

\* the body of the with statement ends and the finally clause runs
ExitEnvironment(e, body, stop, remove) ==
    LET cleanup == Cleanup(environments[e].container, stop, remove)
    IN /\ Ready
       /\ environments[e].pc = "body"
       /\ environments' = [environments EXCEPT ![e] =
            [ pc |-> "closed", setup |-> @.setup, body |-> body,
              container |-> cleanup.container, stop |-> cleanup.stop,
              remove |-> cleanup.remove, logged |-> cleanup.logged,
              outcome |-> Propagated(body, cleanup) ]]
       /\ last' = Call("exit_environment", "-", body, e)
       /\ UNCHANGED <<now, schedVars, rateVars, ledgerVars, threadVars, limitsVars, monitorVars>>

\* --------------------------------------------- the ledger under threads
\* services/sandbox_security.py:106-131.  record_failed_attempt is a plain
\* (synchronous) method that takes no lock: calls made on one event loop
\* cannot overlap (RecordFailedAttempt above), calls made from several
\* threads do, and the interpreter may switch threads between any two
\* statements.  A frame is one call: its position, its local now and the
\* list its comprehension built.  Each action below is one statement; the
\* lookup and append of line 115 are taken as one step, and so are the
\* reading of the list by the comprehension and the test and writes of
\* lines 126-129.

RecordCalls == 1..Len(record_calls)

\* now = datetime.now(), line 108
CallRecordFailedAttempt(user_id) ==
    /\ Len(record_calls) < MaxCalls
    /\ record_calls' = Append(record_calls,
         [user_id |-> user_id, pc |-> "test", now |-> now, kept |-> <<>>, ret |-> "-"])
    /\ last' = Idle
    /\ UNCHANGED <<now, schedVars, rateVars, ledgerVars, limitsVars, monitorVars, sandboxVars>>

\* if user_id not in self.failed_attempts:, line 111
RecordTest(c) ==
    /\ record_calls[c].pc = "test"
    /\ record_calls' = [record_calls EXCEPT ![c].pc =
         IF record_calls[c].user_id \in DOMAIN failed_attempts THEN "append" ELSE "init"]
    /\ last' = Idle
    /\ UNCHANGED <<now, schedVars, rateVars, ledgerVars, limitsVars, monitorVars, sandboxVars>>

\* self.failed_attempts[user_id] = [], line 112
RecordInit(c) ==
    /\ record_calls[c].pc = "init"
    /\ failed_attempts' = Put(failed_attempts, record_calls[c].user_id, <<>>)
    /\ record_calls' = [record_calls EXCEPT ![c].pc = "append"]
    /\ last' = Idle
    /\ UNCHANGED <<now, schedVars, rateVars, cooldowns, limitsVars, monitorVars, sandboxVars>>

\* self.failed_attempts[user_id].append(now), line 115
RecordAppend(c) ==
    LET user_id == record_calls[c].user_id
    IN /\ record_calls[c].pc = "append"
       /\ failed_attempts' = Put(failed_attempts, user_id,
                                 Append(failed_attempts[user_id], record_calls[c].now))
       /\ record_calls' = [record_calls EXCEPT ![c].pc = "filter"]
       /\ last' = Idle
       /\ UNCHANGED <<now, schedVars, rateVars, cooldowns, limitsVars, monitorVars, sandboxVars>>

\* limits, cutoff and the list comprehension of lines 118-123, not yet stored
RecordFilter(c) ==
    LET user_id == record_calls[c].user_id
        limits == LedgerLimits(user_id)
        cutoff == record_calls[c].now - limits.cooldown_period
    IN /\ record_calls[c].pc = "filter"
       /\ record_calls' = [record_calls EXCEPT
            ![c].pc = "store",
            ![c].kept = SelectSeq(failed_attempts[user_id], LAMBDA a : Recent(a, cutoff))]
       /\ last' = Idle
       /\ UNCHANGED <<now, schedVars, rateVars, ledgerVars, limitsVars, monitorVars, sandboxVars>>

\* self.failed_attempts[user_id] = [...], the assignment of line 120
RecordStore(c) ==
    /\ record_calls[c].pc = "store"
    /\ failed_attempts' = Put(failed_attempts, record_calls[c].user_id, record_calls[c].kept)
    /\ record_calls' = [record_calls EXCEPT ![c].pc = "check"]
    /\ last' = Idle
    /\ UNCHANGED <<now, schedVars, rateVars, cooldowns, limitsVars, monitorVars, sandboxVars>>

\* lines 126-131
RecordCheck(c) ==
    LET user_id == record_calls[c].user_id
        limits == LedgerLimits(user_id)
        reached == ReachesLimit(Len(failed_attempts[user_id]), limits.max_failed_attempts)
    IN /\ record_calls[c].pc = "check"
       /\ cooldowns' = IF reached
                       THEN Put(cooldowns, user_id, record_calls[c].now + limits.cooldown_period)
                       ELSE cooldowns
       /\ record_calls' = [record_calls EXCEPT
            ![c].pc = "done", ![c].ret = IF reached THEN "true" ELSE "false"]
       /\ last' = Call("record_failed_attempt", user_id, IF reached THEN "true" ELSE "false", 0)
       /\ UNCHANGED <<now, schedVars, rateVars, failed_attempts, limitsVars, monitorVars, sandboxVars>>

\* The clock of the threads moves on.
Tick ==
    /\ now < MaxClock
    /\ now' = now + 1
    /\ last' = Idle
    /\ UNCHANGED <<schedVars, ledgerVars, extVars>>

\* ------------------------------------------------------------ rate limiter
\* app/core/rate_limit.py.  The redis client (app.core.redis) is not part of
\* the sources; its commands are taken as redis defines them: GET returns
\* nil for a key that is absent or expired, SETEX writes a value that
\* expires after the given seconds, INCR adds one to the value, starting
\* from 0 without expiry on a key that is absent.  Each command is atomic
\* on the server; a coroutine awaiting one is suspended, and other requests
\* run on the event loop meanwhile.

\* RATE_LIMITS, rate_limit.py:66-83
RATE_LIMITS ==
    [ contribution |-> [limit |-> 10, window |-> 60],
      leaderboard |-> [limit |-> 30, window |-> 60],
      stats |-> [limit |-> 60, window |-> 60],
      engagement |-> [limit |-> 20, window |-> 60] ]

NoUser == 0        \* user: Optional[User] = None
NoValue == 0 - 1   \* what redis.get returns for no key: None

\* lines 23-27 and 55-58: the key names the user or the client address,
\* and nothing else
RateLimitKey(user, client_ip) ==
    IF user # NoUser THEN <<"rate_limit:user", user>>
    ELSE <<"rate_limit:ip", client_ip>>

Live(store, key) ==
    /\ key \in DOMAIN store
    /\ store[key].expires = NoTime \/ now < store[key].expires

redis_get(store, key) == IF Live(store, key) THEN store[key].value ELSE NoValue

redis_setex(store, key, seconds, value) ==
    Put(store, key, [value |-> value, expires |-> now + seconds])

redis_incr(store, key) ==
    IF Live(store, key) THEN [store EXCEPT ![key].value = @ + 1]
    ELSE Put(store, key, [value |-> 1, expires |-> NoTime])

RateCalls == 1..Len(rate_calls)

\* check_rate_limit is called: lines 20-27, up to the await of line 30
CallCheckRateLimit(user, client_ip, limit, window) ==
    /\ Len(rate_calls) < MaxRateCalls
    /\ rate_calls' = Append(rate_calls,
         [ key |-> RateLimitKey(user, client_ip), limit |-> limit, window |-> window,
           pc |-> "get", ret |-> "-" ])
    /\ last' = Idle
    /\ UNCHANGED <<now, schedVars, ledgerVars, redis_store,
                   limitsVars, monitorVars, sandboxVars, threadVars>>

\* redis.get answers: lines 30-41, up to the next await or to the raise
RateGet(c) ==
    LET call == rate_calls[c]
        current == redis_get(redis_store, call.key)
    IN /\ call.pc = "get"
       /\ rate_calls' = [rate_calls EXCEPT ![c] =
            IF current = NoValue THEN [call EXCEPT !.pc = "setex"]
            ELSE IF current >= call.limit THEN [call EXCEPT !.pc = "done", !.ret = "429"]
            ELSE [call EXCEPT !.pc = "incr"]]
       /\ last' = IF current # NoValue /\ current >= call.limit
                  THEN Call("check_rate_limit", call.key, "429", c)
                  ELSE Idle
       /\ UNCHANGED <<now, schedVars, ledgerVars, redis_store,
                      limitsVars, monitorVars, sandboxVars, threadVars>>

\* await self.redis.setex(key, window, 1); return True, lines 33-34
RateSetex(c) ==
    LET call == rate_calls[c]
    IN /\ call.pc = "setex"
       /\ redis_store' = redis_setex(redis_store, call.key, call.window, 1)
       /\ rate_calls' = [rate_calls EXCEPT ![c].pc = "done", ![c].ret = "true"]
       /\ last' = Call("check_rate_limit", call.key, "true", c)
       /\ UNCHANGED <<now, schedVars, ledgerVars,
                      limitsVars, monitorVars, sandboxVars, threadVars>>

\* await self.redis.incr(key); return True, lines 44-45
RateIncr(c) ==
    LET call == rate_calls[c]
    IN /\ call.pc = "incr"
       /\ redis_store' = redis_incr(redis_store, call.key)
       /\ rate_calls' = [rate_calls EXCEPT ![c].pc = "done", ![c].ret = "true"]
       /\ last' = Call("check_rate_limit", call.key, "true", c)
       /\ UNCHANGED <<now, schedVars, ledgerVars,
                      limitsVars, monitorVars, sandboxVars, threadVars>>

\* return max(0, limit - int(current)), lines 60-64
get_remaining_requests(store, user, client_ip, limit) ==
    LET current == redis_get(store, RateLimitKey(user, client_ip))
    IN IF current = NoValue THEN limit
       ELSE IF limit - current > 0 THEN limit - current ELSE 0

GetRemainingRequests(user, client_ip, limit) ==
    /\ last' = Call("get_remaining_requests", RateLimitKey(user, client_ip), "value",
                    get_remaining_requests(redis_store, user, client_ip, limit))
    /\ last' # last
    /\ UNCHANGED <<now, schedVars, ledgerVars, rateVars,
                   limitsVars, monitorVars, sandboxVars, threadVars>>

\* ------------------------------------------------------------ specification

InitServices ==
    /\ now = 0
    /\ objs = <<>>
    /\ jobheap = <<>>
    /\ batches = <<>>
    /\ scheduled_tasks = <<>>
    /\ task = <<>>
    /\ ran = <<>>
    /\ failed_attempts = <<>>
    /\ cooldowns = <<>>
    /\ last = Idle

Init ==
    /\ InitServices
    /\ asked_score = <<>>
    /\ returned_limits = <<>>
    /\ job_metrics = <<>>
    /\ job_events = <<>>
    /\ monitoring_tasks = <<>>
    /\ monitor_task = <<>>
    /\ metrics_log = <<>>
    /\ events_log = <<>>
    /\ returned_metrics = <<>>
    /\ environments = <<>>
    /\ record_calls = <<>>
    /\ redis_store = <<>>
    /\ rate_calls = <<>>

\* The batch ids a caller may name, known or not.
BatchIds(clock) == SchedUsers \X (0..clock)

\* The scheduler alone: the policy service is never called by it.
Next ==
    \/ \E u \in SchedUsers, jobs \in JobLists, d \in Delays : CreateBatch(u, jobs, d)
    \/ \E id \in BatchIds(MaxClock) : CancelBatch(id)
    \/ \E id \in BatchIds(MaxClock) : RetryBatch(id)
    \/ \E b \in Objs : TaskStart(b)
    \/ \E b \in Objs : TaskLoop(b)
    \/ \E b \in Objs : ResumeDelay(b)
    \/ \E b \in Objs, out \in {"ok", "raise"} : ResumeJob(b, out)
    \/ \E b \in Objs : TaskCancelled(b)
    \/ \E t \in {now + 1} \cap (1..MaxClock) : Advance(t)

Spec == Init /\ [][Next]_vars

\* The scheduler on the lists a retry is about (a job that runs, then one
\* whose failure cannot be recorded), over a longer time.
RetryJobLists == { <<DictJob, NonDictJob>> }

NextRetry ==
    \/ \E u \in SchedUsers, jobs \in RetryJobLists, d \in Delays : CreateBatch(u, jobs, d)
    \/ \E id \in BatchIds(RetryClock) : CancelBatch(id)
    \/ \E id \in BatchIds(RetryClock) : RetryBatch(id)
    \/ \E b \in Objs : TaskStart(b)
    \/ \E b \in Objs : TaskLoop(b)
    \/ \E b \in Objs : ResumeDelay(b)
    \/ \E b \in Objs, out \in {"ok", "raise"} : ResumeJob(b, out)
    \/ \E b \in Objs : TaskCancelled(b)
    \/ \E t \in {now + 1} \cap (1..RetryClock) : Advance(t)

SpecRetry == Init /\ [][NextRetry]_vars

\* The instants the policy is observed at: the last second of each cooldown
\* period of the tiers the users are in, and the end of the period the
\* ledger applies and the second after it.
LedgerPeriods == { get_resource_limits(u, UserScore[u]).cooldown_period : u \in Users }
                 \cup { LedgerLimits(u).cooldown_period : u \in Users }
TimePoints == {0} \cup { p - 1 : p \in LedgerPeriods }
              \cup UNION { {LedgerLimits(u).cooldown_period,
                             LedgerLimits(u).cooldown_period + 1} : u \in Users }

\* The policy service alone.
NextLedger ==
    \/ \E u \in Users : RecordFailedAttempt(u)
    \/ \E u \in Users : CheckCooldown(u)
    \/ \E t \in TimePoints : Advance(t)

SpecLedger == Init /\ [][NextLedger]_vars

\* get_resource_limits asked for every score, beside a ledger that fills.
NextLimits ==
    \/ \E u \in SchedUsers, score \in Scores : GetResourceLimits(u, score)
    \/ \E u \in SchedUsers : RecordFailedAttempt(u)

SpecLimits == Init /\ [][NextLimits]_vars

\* The readings of a monitored process: below and at the two peaks.
MonitorReadings ==
    { Reading(cpu, mem, 0, 0, 0, 0) : cpu \in {20, 90}, mem \in {30, 85} }

\* The resource monitor: one job is monitored, any job id is asked about.
NextMonitor ==
    \/ \E j \in MonitorJobs : StartMonitoring(j)
    \/ \E j \in JobIds : StopMonitoring(j)
    \/ \E j \in JobIds : GetJobMetrics(j)
    \/ \E t \in MonitorTasks, r \in MonitorReadings : MonitorSample(t, r)
    \/ \E t \in MonitorTasks : MonitorGone(t)
    \/ \E t \in MonitorTasks : MonitorCancelled(t)
    \/ \E t \in {now + 1} \cap (1..MaxClock) : Advance(t)

SpecMonitor == Init /\ [][NextMonitor]_vars

\* The readings around each of the four thresholds.
EventReadings ==
    { Reading(cpu, mem, thresholds.io_threshold - 1, io_write,
              thresholds.network_threshold - 1, net_recv) :
        cpu \in {79, 80}, mem \in {79, 80}, io_write \in {0, 1}, net_recv \in {0, 1} }

\* The sampling loop of one job on those readings.
NextEvents ==
    \/ \E j \in MonitorJobs : StartMonitoring(j)
    \/ \E t \in MonitorTasks, r \in EventReadings : MonitorSample(t, r)
    \/ \E t \in MonitorTasks : MonitorGone(t)
    \/ \E t \in {now + 1} \cap (1..MaxClock) : Advance(t)

SpecEvents == Init /\ [][NextEvents]_vars

\* The sandbox: scopes entered and left, every docker call free to raise.
NextSandbox ==
    \/ \E setup \in SetupOutcomes, stop, remove \in Outcomes :
          EnterEnvironment(setup, stop, remove)
    \/ \E e \in Environments, body \in BodyOutcomes, stop, remove \in Outcomes :
          ExitEnvironment(e, body, stop, remove)

SpecSandbox == Init /\ [][NextSandbox]_vars

\* Both services side by side, on single-job batches.
NextGov ==
    \/ \E u \in SchedUsers : CreateBatch(u, <<DictJob>>, 0)
    \/ \E b \in Objs : TaskStart(b)
    \/ \E b \in Objs : TaskLoop(b)
    \/ \E b \in Objs, out \in {"ok", "raise"} : ResumeJob(b, out)
    \/ \E u \in SchedUsers : RecordFailedAttempt(u)
    \/ \E t \in {now + 1} \cap (1..MaxClock) : Advance(t)

SpecGov == Init /\ [][NextGov]_vars

\* record_failed_attempt called from threads, for one caller or two.
NextThreads ==
    \/ \E u \in Users : CallRecordFailedAttempt(u)
    \/ \E c \in RecordCalls : RecordTest(c)
    \/ \E c \in RecordCalls : RecordInit(c)
    \/ \E c \in RecordCalls : RecordAppend(c)
    \/ \E c \in RecordCalls : RecordFilter(c)
    \/ \E c \in RecordCalls : RecordStore(c)
    \/ \E c \in RecordCalls : RecordCheck(c)
    \/ Tick

SpecThreads == Init /\ [][NextThreads]_vars

\* The callers of the rate limiter: a user or an anonymous client, with
\* the limits of two endpoints and a limit of one request.
RateUsers == {NoUser, 1}
RateClients == {"127.0.0.1"}
RateLimitsAsked == {1, RATE_LIMITS.contribution.limit, RATE_LIMITS.leaderboard.limit}
RateWindows == {RATE_LIMITS.contribution.window}

\* every call made so far has returned or raised
AllAnswered == \A c \in RateCalls : rate_calls[c].pc = "done"

\* Requests handled on one event loop: their calls overlap at the awaits.
NextRate ==
    \/ \E u \in RateUsers, ip \in RateClients, l \in RateLimitsAsked, w \in RateWindows :
          CallCheckRateLimit(u, ip, l, w)
    \/ \E c \in RateCalls : RateGet(c)
    \/ \E c \in RateCalls : RateSetex(c)
    \/ \E c \in RateCalls : RateIncr(c)
    \/ \E u \in RateUsers, ip \in RateClients, l \in RateLimitsAsked :
          GetRemainingRequests(u, ip, l)
    \/ Tick

SpecRate == Init /\ [][NextRate]_vars

\* One caller that awaits each call before it makes the next.
NextRateSequential ==
    \/ /\ AllAnswered
       /\ \E u \in RateUsers, ip \in RateClients, l \in RateLimitsAsked, w \in RateWindows :
             CallCheckRateLimit(u, ip, l, w)
    \/ \E c \in RateCalls : RateGet(c)
    \/ \E c \in RateCalls : RateSetex(c)
    \/ \E c \in RateCalls : RateIncr(c)
    \/ /\ AllAnswered
       /\ \E u \in RateUsers, ip \in RateClients, l \in RateLimitsAsked :
             GetRemainingRequests(u, ip, l)
    \/ Tick

SpecRateSequential == Init /\ [][NextRateSequential]_vars

\* The scheduler with the event loop's scheduling: a task that can run is
\* run before the clock moves on, every task that can take a step
\* eventually takes it, and the clock does not stop.  Batches are made while
\* the time left suffices for their jobs and delays.
MaxDelay == CHOOSE d \in Delays : \A e \in Delays : e <= d
Horizon == MaxJobs * JobSeconds + (MaxJobs - 1) * MaxDelay
LiveClock == Horizon + 1

Runnable(b) ==
    \/ task[b].pc \in {"created", "started"}
    \/ task[b].pc \in {"sleep_delay", "sleep_job"} /\ (task[b].wake = 0 \/ task[b].cancel)

TaskStep(b) ==
    \/ TaskStart(b)
    \/ TaskLoop(b)
    \/ ResumeDelay(b)
    \/ \E out \in {"ok", "raise"} : ResumeJob(b, out)
    \/ TaskCancelled(b)

NextLive ==
    \/ /\ now + Horizon <= LiveClock
       /\ \E u \in SchedUsers, jobs \in JobLists, d \in Delays : CreateBatch(u, jobs, d)
    \/ \E id \in BatchIds(LiveClock) : CancelBatch(id)
    \/ /\ now + Horizon <= LiveClock
       /\ \E id \in BatchIds(LiveClock) : RetryBatch(id)
    \/ \E b \in Objs : TaskStep(b)
    \/ /\ \A b \in Objs : ~Runnable(b)
       /\ \E t \in {now + 1} \cap (1..LiveClock) : Advance(t)

SpecLive ==
    /\ Init /\ [][NextLive]_vars
    /\ \A b \in 1..MaxBatches : WF_vars(b \in Objs /\ TaskStep(b))
    /\ WF_vars(\E t \in {now + 1} \cap (1..LiveClock) :
                  (\A b \in Objs : ~Runnable(b)) /\ Advance(t))

\* ------------------------------------------------------------------ claims

JobsOf(b) == jobheap[objs[b].jobs]
\* the jobs the task of batch b has executed
Executed(b) == { ran[b][k][1] : k \in DOMAIN ran[b] }
JobTerminal == {"completed", "failed"}

StatusMoves ==
    { <<"pending", "running">>, <<"running", "completed">>,
      <<"running", "failed">>, <<"running", "cancelled">> }

\* In one step every batch keeps its status or makes one of the given
\* moves, and every batch constructed in the step is pending.
StatusStep(moves) ==
    /\ Len(objs') >= Len(objs)
    /\ \A b \in 1..Len(objs') :
         IF b <= Len(objs)
         THEN \/ objs'[b].status = objs[b].status
              \/ <<objs[b].status, objs'[b].status>> \in moves
         ELSE objs'[b].status = "pending"

\* C1, as stated: a batch is created pending and its status only moves
\* pending -> running -> completed | failed | cancelled.
C1_StatusMachine == [][StatusStep(StatusMoves)]_vars

\* C1, amended: a batch is created pending and its status only moves
\* pending -> running, pending -> cancelled (cancel_batch before the task
\* has run) or running -> completed | failed | cancelled; a completed,
\* failed or cancelled batch keeps its status.
C1_StatusMachineAmended ==
    [][StatusStep(StatusMoves \cup {<<"pending", "cancelled">>})]_vars

\* a batch cancelled before its task ever ran, and the cancellation delivered
C1_Witness ==
    \E b \in Objs : /\ objs[b].status = "cancelled"
                    /\ objs[b].started_at = NoTime
                    /\ task[b].pc = "done"
                    /\ \E c \in Objs : objs[c].status = "completed"

C3_CancelLeavesRestPending ==
    \A b \in Objs :
        (objs[b].status = "cancelled" /\ objs[b].started_at # NoTime)
        => \A i \in DOMAIN JobsOf(b) :
             JobsOf(b)[i].isdict
             => (JobsOf(b)[i].status \in JobTerminal <=> i \in Executed(b))

\* the batches that retry_batch made of batch b: they hold b's job list
RetriesOf(b) == { c \in Objs : c > b /\ objs[c].jobs = objs[b].jobs }
\* all of a batch that a caller can read: the object and its jobs
BatchRecord(b) == <<objs[b], JobsOf(b)>>

C5_CancelRefused ==
    [][ last'.op = "cancel_batch"
        => IF last'.ret = "true"
           THEN /\ last'.val \in Objs
                /\ objs[last'.val].status \in {"pending", "running"}
                /\ objs'[last'.val].status = "cancelled"
           ELSE UNCHANGED <<objs, jobheap, batches, scheduled_tasks, task>> ]_vars

\* cancel_batch has returned false where every known batch is finished
C5_Witness ==
    /\ last.op = "cancel_batch" /\ last.ret = "false"
    /\ DOMAIN batches # {}
    /\ \A id \in DOMAIN batches :
         objs[batches[id]].status \in {"completed", "failed", "cancelled"}
    /\ \E id \in DOMAIN batches : objs[batches[id]].status = "completed"

\* C6: retry_batch returns a batch only for a failed batch, whose job list
\* the new batch holds; when it returns None no batch is constructed and no
\* task is scheduled.
C6_RetryOnlyFromFailed ==
    [][ last'.op = "retry_batch"
        => IF last'.ret = "batch"
           THEN /\ Len(objs') = Len(objs) + 1
                /\ last'.val = Len(objs')
                /\ \E b \in Objs : /\ objs[b].status = "failed"
                                   /\ objs'[last'.val].jobs = objs[b].jobs
           ELSE UNCHANGED <<objs, jobheap, batches, scheduled_tasks, task>> ]_vars

\* retry_batch has returned None where batches are known and none is failed
C6_Witness ==
    /\ last.op = "retry_batch" /\ last.ret = "none"
    /\ \E id \in DOMAIN batches : objs[batches[id]].status = "completed"
    /\ \E id \in DOMAIN batches : objs[batches[id]].status = "cancelled"
    /\ \A b \in Objs : objs[b].status # "failed"

\* the jobs of a user in flight: its batches suspended inside _execute_job
InFlight(u) == { b \in Objs : objs[b].user_id = u /\ task[b].pc = "sleep_job" }

\* C7: the number of a caller's jobs in flight never exceeds the
\* max_concurrent_jobs of the caller's profile.
C7_ConcurrencyCeiling ==
    \A u \in Users :
        Cardinality(InFlight(u))
            <= get_resource_limits(u, UserScore[u]).max_concurrent_jobs

\* C8: no job of a caller starts executing while the caller is in cooldown.
C8_NoExecutionInCooldown ==
    [][ \A b \in Objs :
          (task[b].pc # "sleep_job" /\ task'[b].pc = "sleep_job")
          => ~check_cooldown(objs[b].user_id, now).some ]_vars

\* the profile of a caller's own tier
Profile(u) == get_resource_limits(u, UserScore[u])
Attempts(u) == IF u \in DOMAIN failed_attempts THEN failed_attempts[u] ELSE <<>>
\* the failures of u in the ledger that are younger than window seconds
RecentFailures(u, window) == SelectSeq(Attempts(u), LAMBDA a : a > now - window)

\* C9: record_failed_attempt appends the failure, keeps the entries within
\* the cooldown period of the caller's own profile, and returns true, with
\* the cooldown ending now + that period, exactly when the entries kept
\* reach the max_failed_attempts of that profile.
C9_RecordUsesCallerProfile ==
    [][ last'.op = "record_failed_attempt"
        => LET u == last'.user
               kept == SelectSeq(Append(Attempts(u), now),
                                 LAMBDA a : a > now - Profile(u).cooldown_period)
           IN /\ failed_attempts'[u] = kept
              /\ (last'.ret = "true") <=> (Len(kept) >= Profile(u).max_failed_attempts)
              /\ (last'.ret = "true")
                 => cooldowns'[u] = now + Profile(u).cooldown_period ]_vars

\* C10: a caller with max_failed_attempts failures of its profile within
\* the cooldown period of its profile is in cooldown, and check_cooldown
\* right after the last of them reports a positive time remaining;
\* check_cooldown reports the time remaining at every instant before the
\* cooldown ends, positive unless the clock reaches the end while it runs,
\* and None from one second after the end.
C10_CooldownElapses ==
    \A u \in Users : \A now2 \in ClockReads :
        /\ Len(RecentFailures(u, Profile(u).cooldown_period))
               >= Profile(u).max_failed_attempts
           => /\ check_cooldown(u, now2).some
              /\ Attempts(u)[Len(Attempts(u))] = now
                 => check_cooldown(u, now2).remaining > 0
        /\ u \in DOMAIN cooldowns
           => /\ now < cooldowns[u]
                 => /\ check_cooldown(u, now2).some
                    /\ check_cooldown(u, now2).remaining = cooldowns[u] - now2
                    /\ now2 < cooldowns[u] => check_cooldown(u, now2).remaining > 0
              /\ now >= cooldowns[u] + 1 => check_cooldown(u, now2) = NoCooldown

\* a silver caller at its fifth failure in cooldown, while the cooldown of
\* a bronze caller ended one second ago
C10_Witness ==
    /\ Len(RecentFailures("u2", Profile("u2").cooldown_period))
           = Profile("u2").max_failed_attempts
    /\ Attempts("u2")[Len(Attempts("u2"))] = now
    /\ check_cooldown("u2", now).remaining > 0
    /\ "u1" \in DOMAIN cooldowns
    /\ now = cooldowns["u1"] + 1
    /\ check_cooldown("u1", now) = NoCooldown

\* record_failed_attempt has written cooldowns[u] in this step
CooldownWritten(u) ==
    \/ last'.op = "record_failed_attempt" /\ last'.user = u /\ last'.ret = "true"
    \/ u \in DOMAIN cooldowns' /\ u \notin DOMAIN cooldowns
    \/ u \in DOMAIN cooldowns' /\ u \in DOMAIN cooldowns /\ cooldowns'[u] # cooldowns[u]

\* C11: the cooldown of a caller is set only in a step that leaves at least
\* max_failed_attempts of the caller's profile in its pruned list of
\* failures.
C11_CooldownOnlyAtThreshold ==
    [][ \A u \in Users :
          CooldownWritten(u)
          => Len(failed_attempts'[u]) >= Profile(u).max_failed_attempts ]_vars

\* C12: get_resource_limits returns the platinum profile iff the score is
\* at least 90, gold iff it is in 75..89, silver iff it is in 50..74 and
\* bronze otherwise; asked the same score twice it returns the same
\* profile; the call changes neither the ledger nor the scheduler.
C12_LimitsByThreshold ==
    [][ last'.op = "get_resource_limits"
        => LET s == asked_score'[Len(asked_score')]
               r == returned_limits'[Len(returned_limits')]
           IN /\ r = resource_limits.platinum <=> s >= 90
              /\ r = resource_limits.gold <=> (75 <= s /\ s < 90)
              /\ r = resource_limits.silver <=> (50 <= s /\ s < 75)
              /\ r = resource_limits.bronze <=> s < 50
              /\ (asked_score # <<>> /\ asked_score[Len(asked_score)] = s)
                 => r = returned_limits[Len(returned_limits)]
              /\ UNCHANGED <<now, schedVars, ledgerVars>> ]_vars

\* the score 75 answered with the gold profile right after the score 74,
\* beside a ledger that holds a cooldown
C12_Witness ==
    /\ last.op = "get_resource_limits"
    /\ asked_score = <<74, 75>>
    /\ returned_limits = <<resource_limits.silver, resource_limits.gold>>
    /\ DOMAIN cooldowns # {}

\* The memory strings are docker memory limits: a number and a unit, "m"
\* for MiB and "g" for GiB (utils/sandbox.py:23, '512m' is 512MB).
MemoryUnitMiB == [m |-> 1, g |-> 1024]
MemoryMiB(memory) ==
    CASE memory = "256m" -> 256 * MemoryUnitMiB.m
      [] memory = "512m" -> 512 * MemoryUnitMiB.m
      [] memory = "1g" -> 1 * MemoryUnitMiB.g
      [] memory = "2g" -> 2 * MemoryUnitMiB.g

\* profile hi allows at least what profile lo allows, in every field
AtLeastAsGenerous(hi, lo) ==
    /\ hi.cpu_quota >= lo.cpu_quota
    /\ MemoryMiB(hi.memory) >= MemoryMiB(lo.memory)
    /\ hi.pids_limit >= lo.pids_limit
    /\ hi.max_execution_time >= lo.max_execution_time
    /\ hi.max_concurrent_jobs >= lo.max_concurrent_jobs
    /\ hi.max_failed_attempts >= lo.max_failed_attempts
    /\ hi.cooldown_period <= lo.cooldown_period

\* C13: of two calls of get_resource_limits, the one with the higher score
\* returns a profile at least as generous in every field: cpu quota,
\* memory, pids limit, execution time, concurrent jobs and failed attempts
\* no smaller, cooldown period no longer.
C13_LimitsMonotonic ==
    (Len(asked_score) = 2 /\ asked_score[1] <= asked_score[2])
    => AtLeastAsGenerous(returned_limits[2], returned_limits[1])

\* a bronze score followed by a platinum score
C13_Witness ==
    /\ asked_score = <<49, 90>>
    /\ returned_limits = <<resource_limits.bronze, resource_limits.platinum>>
    /\ ~AtLeastAsGenerous(returned_limits[1], returned_limits[2])

\* C14: stop_monitoring returns without raising and leaves the job
\* unmonitored; called for a job that is not monitored (stopped before, or
\* never started), and called again right after a call for the same job,
\* it changes nothing: monitoring_tasks, the tasks, the stored samples and
\* events and the logs are as before.
C14_StopIdempotent ==
    [][ last'.op = "stop_monitoring"
        => /\ last'.ret = "returned"
           /\ last'.user \notin DOMAIN monitoring_tasks'
           /\ ( \/ last'.user \notin DOMAIN monitoring_tasks
                \/ last = last' )
              => UNCHANGED monitorVars ]_vars

\* stop_monitoring called again for a job whose only task was already
\* cancelled by a stop_monitoring that flushed its two samples
C14_Witness ==
    /\ last.op = "stop_monitoring" /\ last.user = "j1"
    /\ Len(monitor_task) = 1
    /\ monitor_task[1].ended = "cancelled"
    /\ "j1" \notin DOMAIN monitoring_tasks
    /\ Len(job_metrics["j1"]) = 2
    /\ Len(metrics_log["j1"]) = 2

\* the events stored for a job by the step taken
EventsAdded(job_id) ==
    SubSeq(job_events'[job_id], Len(job_events[job_id]) + 1, Len(job_events'[job_id]))

\* how many of the events are of the type and carry the details
CountEvents(events, event_type, details) ==
    Cardinality({ i \in DOMAIN events :
                    /\ events[i].event_type = event_type
                    /\ events[i].details = details })

Indicator(condition) == IF condition THEN 1 ELSE 0

\* C15: a step that stores a sample stores, for that sample, one cpu_peak
\* event iff cpu_percent >= 80, one memory_peak event iff memory_percent
\* >= 80, one throttling event with the io figures iff read + write bytes
\* reach the io threshold, one throttling event with the network figures
\* iff sent + received bytes reach the network threshold, and no other
\* event; each event carries the figures of the sample.
C15_EventsPerSample ==
    [][ \A j \in MonitorJobs :
          (j \in DOMAIN job_metrics /\ j \in DOMAIN job_metrics'
             /\ Len(job_metrics'[j]) = Len(job_metrics[j]) + 1)
          => LET m == job_metrics'[j][Len(job_metrics'[j])]
                 added == EventsAdded(j)
                 cpu == Indicator(m.cpu_percent >= 80)
                 mem == Indicator(m.memory_percent >= 80)
                 io  == Indicator(m.io_read_bytes + m.io_write_bytes >= 104857600)
                 net == Indicator(m.network_sent_bytes + m.network_recv_bytes >= 52428800)
             IN /\ CountEvents(added, "cpu_peak",
                               << <<"cpu_percent", m.cpu_percent>> >>) = cpu
                /\ CountEvents(added, "memory_peak",
                               << <<"memory_percent", m.memory_percent>> >>) = mem
                /\ CountEvents(added, "throttling",
                               << <<"io_read", m.io_read_bytes>>,
                                  <<"io_write", m.io_write_bytes>> >>) = io
                /\ CountEvents(added, "throttling",
                               << <<"network_sent", m.network_sent_bytes>>,
                                  <<"network_recv", m.network_recv_bytes>> >>) = net
                /\ Len(added) = cpu + mem + io + net
                /\ \A i \in DOMAIN added : added[i].metrics = m /\ added[i].job_id = j ]_vars

\* a sample below every threshold, then a sample with cpu_percent 80 only:
\* exactly one event, a cpu_peak
C15_Witness ==
    /\ "j1" \in DOMAIN job_metrics
    /\ Len(job_metrics["j1"]) = 2
    /\ job_metrics["j1"][1].cpu_percent = 79
    /\ job_metrics["j1"][2].cpu_percent = 80
    /\ Len(job_events["j1"]) = 1
    /\ job_events["j1"][1].event_type = "cpu_peak"
    /\ job_events["j1"][1].details = << <<"cpu_percent", 80>> >>
    /\ job_events["j1"][1].timestamp = 1

\* the figures a returned aggregate must show for a history of values
AggregateOf(stat, history) ==
    /\ stat.history = history
    /\ stat.current = history[Len(history)]
    /\ \E i \in DOMAIN history : stat.peak = history[i]
    /\ \A i \in DOMAIN history : stat.peak >= history[i]

\* C16: get_job_metrics returns None for a job without stored samples
\* (never started, or started and not yet sampled); otherwise it returns
\* an aggregate whose cpu and memory history is the stored samples in
\* order, whose current is the last sample and whose peak is the maximum
\* of the history; the call changes no state of the monitor.
C16_MetricsAggregate ==
    [][ last'.op = "get_job_metrics"
        => LET j == last'.user
           IN /\ IF j \notin DOMAIN job_metrics \/ GetList(job_metrics, j) = <<>>
                 THEN last'.ret = "none" /\ returned_metrics' = <<>>
                 ELSE /\ last'.ret = "metrics"
                      /\ Len(returned_metrics') = 1
                      /\ AggregateOf(returned_metrics'[1].cpu,
                                     [i \in DOMAIN job_metrics[j] |->
                                        job_metrics[j][i].cpu_percent])
                      /\ AggregateOf(returned_metrics'[1].memory,
                                     [i \in DOMAIN job_metrics[j] |->
                                        job_metrics[j][i].memory_percent])
              /\ UNCHANGED <<job_metrics, job_events, monitoring_tasks,
                             monitor_task, metrics_log, events_log>> ]_vars

\* an aggregate returned for two samples whose peak is not the last one
C16_Witness ==
    /\ last.op = "get_job_metrics" /\ last.ret = "metrics"
    /\ Len(returned_metrics) = 1
    /\ returned_metrics[1].cpu.history = <<90, 20>>
    /\ returned_metrics[1].cpu.peak = 90
    /\ returned_metrics[1].cpu.current = 20
    /\ returned_metrics[1].memory.history = <<30, 85>>

\* every item of the list is among the entries the log of the job holds
Flushed(log, job_id, entries) ==
    \A i \in DOMAIN entries :
        \E k \in DOMAIN GetList(log, job_id) : log[job_id][k] = entries[i]

\* the tasks that ended because the process was gone and that no
\* stop_monitoring has been called for since
EndedByProcessExit ==
    { t \in MonitorTasks :
        /\ monitor_task[t].pc = "done"
        /\ monitor_task[t].ended = "gone"
        /\ monitor_task[t].job_id \in DOMAIN monitoring_tasks
        /\ monitoring_tasks[monitor_task[t].job_id] = t }

\* C17: once the sampling loop of a job has ended because the process
\* disappeared, the samples and the events stored for the job are in the
\* metrics log and the events log, with no call of stop_monitoring.
C17_FlushOnProcessExit ==
    \A t \in EndedByProcessExit :
        /\ Flushed(metrics_log, monitor_task[t].job_id,
                   Map(MetricsEntry, job_metrics[monitor_task[t].job_id]))
        /\ Flushed(events_log, monitor_task[t].job_id,
                   Map(EventEntry, job_events[monitor_task[t].job_id]))

\* the scopes that were left and in which a container was created
ClosedWithContainer ==
    { e \in Environments : /\ environments[e].pc = "closed"
                           /\ environments[e].setup # "create_raises" }

\* C18: in every scope that was left and in which a container was created,
\* however it was left, the finally clause has called both
\* container.stop() and container.remove(), and the container is removed
\* unless one of the two calls itself raised.
C18_ContainerDestroyed ==
    \A e \in ClosedWithContainer :
        /\ environments[e].stop # "-"
        /\ environments[e].remove # "-"
        /\ (environments[e].stop = "ok" /\ environments[e].remove = "ok")
           => environments[e].container = "removed"

\* what the scope hands to its caller when the finally clause adds nothing
PendingOutcome(e) ==
    IF environments[e].setup = "yield" THEN environments[e].body
    ELSE environments[e].setup

\* C19: whatever container.stop() or container.remove() does, the caller of
\* a scope that was left observes the outcome of the body (its return, its
\* exception or its cancellation), or the exception of the setup that
\* raised; a stop or remove that raised has been logged.
C19_CleanupNeverMasks ==
    \A e \in Environments :
        environments[e].pc = "closed"
        => /\ environments[e].outcome = PendingOutcome(e)
           /\ (environments[e].stop = "raise" \/ environments[e].remove = "raise")
              => environments[e].logged = 1

\* a body that returned and a body that raised, each followed by a cleanup
\* that failed, one in stop and one in remove
C19_Witness ==
    \E e, f \in Environments :
        /\ environments[e].pc = "closed" /\ environments[f].pc = "closed"
        /\ environments[e].body = "return" /\ environments[e].stop = "raise"
        /\ environments[e].outcome = "return"
        /\ environments[f].body = "raise" /\ environments[f].remove = "raise"
        /\ environments[f].outcome = "raise"
        /\ environments[e].logged = 1 /\ environments[f].logged = 1

\* The calls made for a caller, and whether all of them have returned.
CallsFor(u) == { c \in RecordCalls : record_calls[c].user_id = u }
AllReturned(u) == \A c \in CallsFor(u) : record_calls[c].pc = "done"

JobInFlight(b) == IF task[b].pc = "sleep_job" THEN {task[b].i} ELSE {}
\* The job the task of b is at, waiting in the delay before it or running it.
AtJob(b) == task[b].pc \in {"sleep_delay", "sleep_job"}
Finished(job) == job.status \in {"completed", "failed"}

\* C21: the jobs of a batch run one at a time in list order.  The jobs a
\* task has executed are jobs 1, 2, ... in that order, each once; a task at
\* job i (in the delay before it, or running it) has executed exactly the
\* jobs before i, every one of which is completed or failed; and at most
\* one job of a batch is in flight.
C21_JobsInListOrder ==
    \A b \in Objs :
        /\ \A k \in DOMAIN ran[b] : ran[b][k][1] = k
        /\ Cardinality(JobInFlight(b)) <= 1
        /\ AtJob(b)
           => /\ Len(ran[b]) = task[b].i - 1
              /\ \A k \in 1..(task[b].i - 1) : Finished(jobheap[objs[b].jobs][k])

\* Two batches each have a job in flight, one of them its second job.
C21_Witness ==
    \E b, c \in Objs :
        /\ b # c
        /\ JobInFlight(b) = {2}
        /\ JobInFlight(c) # {}

\* The sampling loops that may still append to the history of a job: the
\* tasks of _monitor_resources for it that have not finished and on which
\* cancel() was not called.
Writers(job_id) ==
    { t \in MonitorTasks : /\ monitor_task[t].job_id = job_id
                           /\ monitor_task[t].pc # "done"
                           /\ ~monitor_task[t].cancel }

\* C22: the history of a job has a single writer.  After every step at most
\* one sampling loop can append to a job's history, and it is the task
\* registered for the job; a step that appends a sample is taken by that
\* task; and start_monitoring on a monitored job leaves the samples, the
\* events and the tasks as they are.
C22_SingleWriter ==
    [][ /\ \A j \in JobIds :
             /\ Cardinality(Writers(j)') <= 1
             /\ \A t \in Writers(j)' :
                  j \in DOMAIN monitoring_tasks' /\ monitoring_tasks'[j] = t
             /\ (j \in DOMAIN job_metrics /\ j \in DOMAIN job_metrics'
                 /\ Len(job_metrics'[j]) > Len(job_metrics[j]))
                => \E t \in Writers(j) : monitor_task'[t].pc = "sleep"
        /\ (last'.op = "start_monitoring" /\ last'.user \in DOMAIN monitoring_tasks)
           => UNCHANGED <<job_metrics, job_events, monitoring_tasks, monitor_task>>
      ]_vars

\* stop_monitoring was followed by start_monitoring for the same job: the
\* first loop has not yet seen its cancellation, the second has sampled.
C22_Witness ==
    /\ Len(monitor_task) = 2
    /\ monitor_task[1].job_id = monitor_task[2].job_id
    /\ monitor_task[1].pc = "sleep" /\ monitor_task[1].cancel
    /\ monitor_task[2].pc = "sleep"
    /\ job_metrics[monitor_task[2].job_id] # <<>>

\* The calls of one caller with the limit of one endpoint that returned True.
AcceptedAt(user, client_ip, limit) ==
    { c \in RateCalls : /\ rate_calls[c].key = RateLimitKey(user, client_ip)
                        /\ rate_calls[c].limit = limit
                        /\ rate_calls[c].ret = "true" }

EndpointLimits == {RATE_LIMITS.contribution.limit, RATE_LIMITS.leaderboard.limit}

\* C23: the endpoints are counted apart for the same user.  Once a caller's
\* calls have returned, get_remaining_requests with the limit of an endpoint
\* reports that limit less the calls accepted for that endpoint: after one
\* call with the contribution limits and one with the leaderboard limits,
\* limit - 1 for each.
C23_EndpointsCountedApart ==
    (AllAnswered /\ \A c \in RateCalls : rate_calls[c].limit \in EndpointLimits)
    => \A user \in RateUsers, ip \in RateClients, limit \in EndpointLimits :
          Cardinality(AcceptedAt(user, ip, limit)) <= limit
          => get_remaining_requests(redis_store, user, ip, limit)
             = limit - Cardinality(AcceptedAt(user, ip, limit))

\* The calls on a key, those of them that returned True, and the keys on
\* which every call was made with the same limit.
CallsOn(key) == { c \in RateCalls : rate_calls[c].key = key }
AcceptedOn(key) == { c \in CallsOn(key) : rate_calls[c].ret = "true" }

\* C24: whatever the interleaving of the check_rate_limit calls on a key
\* within one window, all made with the same limit, at most limit of them
\* return True, and once they have returned get_remaining_requests reports
\* the limit less the number of calls accepted.
C24_AtMostLimitAccepted ==
    \A user \in RateUsers, ip \in RateClients, limit \in RateLimitsAsked :
        LET key == RateLimitKey(user, ip)
        IN (\A c \in CallsOn(key) : rate_calls[c].limit = limit)
           => /\ Cardinality(AcceptedOn(key)) <= limit
              /\ (\A c \in CallsOn(key) : rate_calls[c].pc = "done")
                 => get_remaining_requests(redis_store, user, ip, limit)
                    = limit - Cardinality(AcceptedOn(key))

\* cancel_batch has returned true for the batch id of b: a batch stored
\* under that id was cancelled.
CancelReturnedTrue(b) ==
    \E c \in Objs : /\ objs[c].batch_id = objs[b].batch_id
                    /\ objs[c].status = "cancelled"

\* C25: once cancel_batch has returned true for a batch, no job of that
\* batch starts executing or finishes, and no status of its jobs changes.
C25_NothingRunsAfterCancel ==
    [][ \A b \in Objs :
          CancelReturnedTrue(b)
          => /\ ran'[b] = ran[b]
             /\ JobInFlight(b)' \subseteq JobInFlight(b)
             /\ jobheap'[objs[b].jobs] = jobheap[objs[b].jobs]
      ]_vars

\* BatchStatus values a batch does not leave
BatchTerminal == {"completed", "failed", "cancelled"}

\* C26: every batch ends.  A batch whose task has gone through all its jobs
\* and that was not cancelled is completed; a batch whose loop raised
\* outside a job's execution, while recording the job's failure, is failed
\* with the message of the exception; and under fair scheduling every batch
\* made eventually has a terminal status.
C26_EveryBatchEnds ==
    /\ [](\A b \in Objs :
            /\ ( /\ task[b].pc = "done"
                 /\ objs[b].status # "cancelled"
                 /\ Len(ran[b]) = Len(JobsOf(b))
                 /\ \A k \in DOMAIN ran[b] : ran[b][k][2] # "fault" )
               => objs[b].status = "completed"
            /\ ( /\ objs[b].status # "cancelled"
                 /\ \E k \in DOMAIN ran[b] : ran[b][k][2] = "fault" )
               => /\ objs[b].status = "failed"
                  /\ objs[b].error_message = "TypeError")
    /\ \A b \in 1..MaxBatches :
          [](b \in Objs => <>(b \in Objs /\ objs[b].status \in BatchTerminal))

\* a batch completed after its two jobs, beside a batch failed in its loop
C26_Witness ==
    \E b, c \in Objs :
        /\ objs[b].status = "completed" /\ Len(ran[b]) = 2
        /\ objs[c].status = "failed" /\ objs[c].error_message = "TypeError"

\* C27: every batch made by create_batch, retry_batch's included, is stored
\* under a batch id of its own: batches holds as many entries as batches
\* were made, and each batch is the one stored under its batch id.
C27_BatchIdsUnique ==
    /\ Cardinality(DOMAIN batches) = Len(objs)
    /\ \A b \in Objs : batches[objs[b].batch_id] = b
    /\ \A b, c \in Objs : objs[b].batch_id = objs[c].batch_id => b = c

\* C28: a batch that has a terminal status keeps its completed_at and its
\* error_message; what cancel_batch wrote stays when the cancellation
\* reaches the task.
C28_TerminalFieldsKept ==
    [][ \A b \in Objs :
          objs[b].status \in BatchTerminal
          => /\ objs'[b].completed_at = objs[b].completed_at
             /\ objs'[b].error_message = objs[b].error_message ]_vars

\* the caller is in cooldown: check_cooldown would report it
InCooldown(u) == u \in DOMAIN cooldowns /\ now < cooldowns[u]

\* C29: the end of a caller's cooldown never moves earlier and is never
\* cleared, whatever is called; and a failure recorded while the caller is
\* in cooldown, with the failures within the cooldown period of its profile
\* at or above the max_failed_attempts of its profile, sets the end of the
\* cooldown to now + that cooldown period.
C29_CooldownOnlyExtends ==
    [][ \A u \in Users :
          /\ u \in DOMAIN cooldowns
             => /\ u \in DOMAIN cooldowns'
                /\ cooldowns'[u] >= cooldowns[u]
          /\ ( /\ InCooldown(u)
               /\ last'.op = "record_failed_attempt" /\ last'.user = u
               /\ Len(SelectSeq(failed_attempts'[u],
                                LAMBDA a : a > now - Profile(u).cooldown_period))
                     >= Profile(u).max_failed_attempts )
             => cooldowns'[u] = now + Profile(u).cooldown_period ]_vars

\* the sampling loop registered for the job has not ended
LoopRunning(job_id) == monitor_task[monitoring_tasks[job_id]].pc # "done"

\* C30: a job id is registered in monitoring_tasks only while its sampling
\* loop is still running, and a start_monitoring for a job whose loop has
\* ended on its own (the process disappeared, or sampling raised) starts a
\* new sampling loop instead of returning without doing anything.
C30_RegisteredWhileRunning ==
    [][ /\ \A j \in DOMAIN monitoring_tasks' : LoopRunning(j)'
        /\ \A j \in MonitorJobs :
              ( /\ EndedByProcessExit # {}
                /\ j \in { monitor_task[t].job_id : t \in EndedByProcessExit }
                /\ last'.op = "start_monitoring" /\ last'.user = j
                /\ Len(monitor_task) < MaxMonitorTasks )
              => /\ Len(monitor_task') = Len(monitor_task) + 1
                 /\ monitor_task'[monitoring_tasks'[j]].pc = "created" ]_vars

====
